---- MODULE Spec2Model ----
(***************************************************************************)
(* Model of src/main.py: the StudentMarksSystem of CodeNation_Connect.     *)
(*                                                                         *)
(* A Python str is a sequence of symbols.  A symbol is one character that  *)
(* the csv machinery or the number conversions treat specially (";", ",",  *)
(* the double quote, CR, LF, ".", "-", "+", a digit), or a run of ordinary *)
(* characters kept together as one symbol ("StudentID", "Al").             *)
(* A float is an exact fraction.                                           *)
(***************************************************************************)
EXTENDS Integers, Sequences, FiniteSets, TLC

VARIABLES pc, err, students, subject_weights, fs, choice, stdout

vars == <<pc, err, students, subject_weights, fs, choice, stdout>>

(***************************************************************************)
(* Python values                                                           *)
(***************************************************************************)
None == [type |-> "NoneType"]

PyStr(s) == [type |-> "str", v |-> s]

PyList(l) == [type |-> "list", v |-> l]

PyInt(n) == [type |-> "int", v |-> n]

RECURSIVE GCD(_, _)
GCD(a, b) == IF b = 0 THEN a ELSE GCD(b, a % b)

Abs(n) == IF n < 0 THEN -n ELSE n

\* the float n/d (d # 0), kept as a fraction in lowest terms
Float(n, d) ==
    LET g == GCD(Abs(n), Abs(d))
        s == IF d < 0 THEN -1 ELSE 1
    IN  [type |-> "float", num |-> (s * n) \div g, den |-> (s * d) \div g]

\* the elements a for-loop over a value yields
Iter(value) ==
    IF value.type = "str"
    THEN [i \in 1..Len(value.v) |-> PyStr(<<value.v[i]>>)]
    ELSE [i \in 1..Len(value.v) |-> PyInt(value.v[i])]

isinstance(value, t) == value.type = t

RECURSIVE SumSeq(_)
SumSeq(s) == IF s = <<>> THEN 0 ELSE s[1] + SumSeq(Tail(s))

RECURSIVE Concat(_)
Concat(ss) == IF ss = <<>> THEN <<>> ELSE ss[1] \o Concat(Tail(ss))

Range(s) == {s[i] : i \in 1..Len(s)}

(***************************************************************************)
(* str(int), int(str), float(str), str.split(','), ','.join                *)
(***************************************************************************)
Digits == <<"0", "1", "2", "3", "4", "5", "6", "7", "8", "9">>

DigitVal(c) == (CHOOSE i \in 1..10 : Digits[i] = c) - 1

IsDigit(c) == c \in Range(Digits)

RECURSIVE StrNat(_)
StrNat(n) == IF n < 10 THEN <<Digits[n + 1]>> ELSE StrNat(n \div 10) \o <<Digits[(n % 10) + 1]>>

\* a str that loses the sign
str_unsigned(n) == StrNat(Abs(n))

\* str(n) for an int n
str(n) == IF n < 0 THEN <<"-">> \o StrNat(-n) ELSE StrNat(n)

RECURSIVE NatVal(_)
NatVal(ds) == IF ds = <<>> THEN 0 ELSE 10 * NatVal(SubSeq(ds, 1, Len(ds) - 1)) + DigitVal(ds[Len(ds)])

AllDigits(ds) == ds # <<>> /\ \A i \in 1..Len(ds) : IsDigit(ds[i])

Unsigned(tok) == IF tok # <<>> /\ tok[1] \in {"-", "+"} THEN Tail(tok) ELSE tok

Sign(tok) == IF tok # <<>> /\ tok[1] = "-" THEN -1 ELSE 1

\* int(tok) raises ValueError unless tok is an optional sign and digits
IntOk(tok) == AllDigits(Unsigned(tok))

int(tok) == Sign(tok) * NatVal(Unsigned(tok))

DotAt(tok) == IF \E i \in 1..Len(tok) : tok[i] = "." THEN CHOOSE i \in 1..Len(tok) : tok[i] = "." ELSE 0

\* float(tok) raises ValueError unless tok is sign, digits, optional "." digits
FloatOk(tok) ==
    LET u == Unsigned(tok)
        k == DotAt(u)
        ip == IF k = 0 THEN u ELSE SubSeq(u, 1, k - 1)
        fp == IF k = 0 THEN <<>> ELSE SubSeq(u, k + 1, Len(u))
    IN  /\ \A i \in 1..Len(ip) : IsDigit(ip[i])
        /\ \A i \in 1..Len(fp) : IsDigit(fp[i])
        /\ Len(ip) + Len(fp) > 0

RECURSIVE Pow10(_)
Pow10(k) == IF k = 0 THEN 1 ELSE 10 * Pow10(k - 1)

float(tok) ==
    LET u == Unsigned(tok)
        k == DotAt(u)
        ip == IF k = 0 THEN u ELSE SubSeq(u, 1, k - 1)
        fp == IF k = 0 THEN <<>> ELSE SubSeq(u, k + 1, Len(u))
    IN  Float(Sign(tok) * (NatVal(ip) * Pow10(Len(fp)) + NatVal(fp)), Pow10(Len(fp)))

RECURSIVE split(_, _)
split(s, sep) ==
    IF \E i \in 1..Len(s) : s[i] = sep
    THEN LET k == CHOOSE i \in 1..Len(s) : s[i] = sep /\ \A j \in 1..(i - 1) : s[j] # sep
         IN  <<SubSeq(s, 1, k - 1)>> \o split(SubSeq(s, k + 1, Len(s)), sep)
    ELSE <<s>>

RECURSIVE join(_, _)
join(sep, parts) ==
    IF parts = <<>> THEN <<>>
    ELSE IF Len(parts) = 1 THEN parts[1]
    ELSE parts[1] \o <<sep>> \o join(sep, Tail(parts))

(***************************************************************************)
(* The csv module with delimiter ";" (csv.DictReader, csv.DictWriter), and *)
(* text files opened with open(filename, 'r')                              *)
(***************************************************************************)
delimiter == ";"

quotechar == "\""

CR == "\r"

LF == "\n"

lineterminator == <<CR, LF>>

EOL == "<EOL>"

\* open(filename, 'r') reads with universal newlines: CR LF and CR become LF
UniversalNewlines(t) ==
    LET kept == SelectSeq([i \in 1..Len(t) |-> i],
                          LAMBDA i : ~(t[i] = LF /\ i > 1 /\ t[i - 1] = CR))
    IN  [j \in 1..Len(kept) |-> IF t[kept[j]] = CR THEN LF ELSE t[kept[j]]]

\* the lines a text file yields, each with its line feed (the last may lack one)
Lines(t) ==
    LET ends == SelectSeq([i \in 1..Len(t) |-> i], LAMBDA i : t[i] = LF \/ i = Len(t))
    IN  [k \in 1..Len(ends) |-> SubSeq(t, IF k = 1 THEN 1 ELSE ends[k - 1] + 1, ends[k])]

NewParser == [state |-> "START_RECORD", field |-> <<>>, fields |-> <<>>, rows |-> <<>>]

parse_save_field(p) == [p EXCEPT !.fields = Append(@, p.field), !.field = <<>>]

parse_add_char(p, c) == [p EXCEPT !.field = Append(@, c)]

\* the reader's state machine for one character (or the end-of-line mark)
parse_process_char(p, c) ==
    LET nl == c \in {LF, CR}
        end == nl \/ c = EOL
        after == IF c = EOL THEN "START_RECORD" ELSE "EAT_CRNL"
        start_field ==
            IF end THEN [parse_save_field(p) EXCEPT !.state = after]
            ELSE IF c = quotechar THEN [p EXCEPT !.state = "IN_QUOTED_FIELD"]
            ELSE IF c = delimiter THEN [parse_save_field(p) EXCEPT !.state = "START_FIELD"]
            ELSE [parse_add_char(p, c) EXCEPT !.state = "IN_FIELD"]
    IN  CASE p.state = "START_RECORD" ->
                IF c = EOL THEN p
                ELSE IF nl THEN [p EXCEPT !.state = "EAT_CRNL"]
                ELSE start_field
          [] p.state = "START_FIELD" -> start_field
          [] p.state = "IN_FIELD" ->
                IF end THEN [parse_save_field(p) EXCEPT !.state = after]
                ELSE IF c = delimiter THEN [parse_save_field(p) EXCEPT !.state = "START_FIELD"]
                ELSE parse_add_char(p, c)
          [] p.state = "IN_QUOTED_FIELD" ->
                IF c = EOL THEN p
                ELSE IF c = quotechar THEN [p EXCEPT !.state = "QUOTE_IN_QUOTED_FIELD"]
                ELSE parse_add_char(p, c)
          [] p.state = "QUOTE_IN_QUOTED_FIELD" ->
                IF c = quotechar THEN [parse_add_char(p, c) EXCEPT !.state = "IN_QUOTED_FIELD"]
                ELSE IF c = delimiter THEN [parse_save_field(p) EXCEPT !.state = "START_FIELD"]
                ELSE IF end THEN [parse_save_field(p) EXCEPT !.state = after]
                ELSE [parse_add_char(p, c) EXCEPT !.state = "IN_FIELD"]
          [] p.state = "EAT_CRNL" ->
                IF c = EOL THEN [p EXCEPT !.state = "START_RECORD"]
                ELSE IF nl THEN p
                ELSE [p EXCEPT !.state = "ERROR"]
          [] p.state = "ERROR" -> p

\* the characters lo..hi of one line in order, the first half before the second
RECURSIVE ProcessChars(_, _, _, _)
ProcessChars(line, lo, hi, p) ==
    IF lo > hi THEN p
    ELSE IF lo = hi THEN parse_process_char(p, line[lo])
    ELSE LET mid == (lo + hi) \div 2
             left == ProcessChars(line, lo, mid, p)
         IN  IF left.state = "ERROR" THEN left ELSE ProcessChars(line, mid + 1, hi, left)

\* the characters of one line, then the end-of-line mark; a character the
\* machine rejects (csv.Error) ends it, which after the newline translation
\* no text brings about
ProcessLine(line, p) == parse_process_char(ProcessChars(line, 1, Len(line), p), EOL)

\* csv.reader over the lines of a text: the sequence of rows, each a sequence
\* of fields.  A record is complete when the end of a line leaves the machine
\* in START_RECORD; at the end of the text an open field closes the last record.
RECURSIVE ReadLines(_, _, _)
ReadLines(lines, k, p) ==
    IF k > Len(lines)
    THEN IF Len(p.field) # 0 \/ p.state = "IN_QUOTED_FIELD"
         THEN Append(p.rows, Append(p.fields, p.field))
         ELSE p.rows
    ELSE LET q == ProcessLine(lines[k], p)
         IN  IF q.state = "ERROR" THEN p.rows
             ELSE IF q.state = "START_RECORD"
             THEN ReadLines(lines, k + 1, [q EXCEPT !.rows = Append(@, q.fields), !.fields = <<>>])
             ELSE ReadLines(lines, k + 1, q)

reader(text) == ReadLines(Lines(UniversalNewlines(text)), 1, NewParser)

\* csv.DictReader: the first row names the columns, empty rows are skipped.
\* Every data row of the files of this model has one field per column.
fieldnames(rows) == rows[1]

DataRows(rows) == SelectSeq(Tail(rows), LAMBDA r : r # <<>>)

HasColumn(names, column) == \E i \in 1..Len(names) : names[i] = <<column>>

\* row[column] of the dict zip(fieldnames, row): the last column of that name
RowGet(names, row, column) ==
    LET k == CHOOSE i \in 1..Len(names) :
                 names[i] = <<column>> /\ \A j \in (i + 1)..Len(names) : names[j] # <<column>>
    IN  row[k]

\* csv.writer, QUOTE_MINIMAL: a field holding the delimiter, the quote
\* character or a line terminator character is quoted, quotes are doubled
NeedsQuote(c) == c = delimiter \/ c = quotechar \/ c \in Range(lineterminator)

RECURSIVE DoubleQuotes(_)
DoubleQuotes(f) ==
    IF f = <<>> THEN <<>>
    ELSE (IF f[1] = quotechar THEN <<quotechar, quotechar>> ELSE <<f[1]>>) \o DoubleQuotes(Tail(f))

join_append(f) ==
    IF \E i \in 1..Len(f) : NeedsQuote(f[i])
    THEN <<quotechar>> \o DoubleQuotes(f) \o <<quotechar>>
    ELSE f

\* writer.writerow(fields)
writerow(fields) == join(delimiter, [i \in 1..Len(fields) |-> join_append(fields[i])]) \o lineterminator

(***************************************************************************)
(* self.students: a defaultdict(dict), kept in insertion order.  It is a   *)
(* sequence of entries [id, data]; data maps the keys set so far ("Name",  *)
(* "Class", "Math", "Science", "English") to Python values.                *)
(***************************************************************************)
KeyOrder == <<"Name", "Class", "Math", "Science", "English">>

\* the keys of one student's dict, in insertion order
Keys(data) == SelectSeq(KeyOrder, LAMBDA k : k \in DOMAIN data)

Has(st, id) == \E i \in 1..Len(st) : st[i].id = id

IndexOf(st, id) == CHOOSE i \in 1..Len(st) : st[i].id = id

Get(st, id) == st[IndexOf(st, id)].data

IdSet(st) == {st[i].id : i \in 1..Len(st)}

\* self.students[student_id][key] = value; a missing student_id is created
SetItem(st, id, key, value) ==
    LET base == IF Has(st, id) THEN st ELSE Append(st, [id |-> id, data |-> <<>>])
        k == IndexOf(base, id)
        d == base[k].data
    IN  [base EXCEPT ![k].data = [x \in DOMAIN d \cup {key} |-> IF x = key THEN value ELSE d[x]]]

Undefined == [type |-> "undefined"]

NoExc == ""

(***************************************************************************)
(* Loading                                                                 *)
(***************************************************************************)
FirstMissing(names, required) ==
    IF \E i \in 1..Len(required) : ~HasColumn(names, required[i])
    THEN CHOOSE i \in 1..Len(required) :
             ~HasColumn(names, required[i]) /\ \A j \in 1..(i - 1) : HasColumn(names, required[j])
    ELSE 0

RECURSIVE StudentRows(_, _, _)
StudentRows(st, names, rows) ==
    IF rows = <<>> THEN st
    ELSE LET student_id == RowGet(names, rows[1], "StudentID")
             s1 == SetItem(st, student_id, "Name", PyStr(RowGet(names, rows[1], "Name")))
             s2 == SetItem(s1, student_id, "Class", PyStr(RowGet(names, rows[1], "Class")))
         IN  StudentRows(s2, names, Tail(rows))

\* a file with no line at all has no fieldnames (None): the column test raises
load_student_data(st, fsys, filename) ==
    IF filename \notin DOMAIN fsys THEN [students |-> st, exc |-> "FileNotFoundError"]
    ELSE LET rows == reader(fsys[filename])
         IN  IF rows = <<>> THEN [students |-> st, exc |-> "TypeError"]
             ELSE IF FirstMissing(fieldnames(rows), <<"StudentID", "Name", "Class">>) # 0
             THEN [students |-> st, exc |-> "exit: column is missing"]
             ELSE [students |-> StudentRows(st, fieldnames(rows), DataRows(rows)), exc |-> NoExc]

Marks(field) == split(field, ",")

MarksOk(field) == \A i \in 1..Len(Marks(field)) : IntOk(Marks(field)[i])

MarksList(field) == PyList([i \in 1..Len(Marks(field)) |-> int(Marks(field)[i])])

\* one row: the three assignments in order, the first mark that is not an
\* integer ends the load after the assignments made before it
MarksRow(st, names, row) ==
    LET student_id == RowGet(names, row, "StudentID")
        field(column) == RowGet(names, row, column)
        s1 == SetItem(st, student_id, "Math", MarksList(field("Math")))
        s2 == SetItem(s1, student_id, "Science", MarksList(field("Science")))
        s3 == SetItem(s2, student_id, "English", MarksList(field("English")))
    IN  IF ~MarksOk(field("Math")) THEN [students |-> st, exc |-> "exit: ValueError"]
        ELSE IF ~MarksOk(field("Science")) THEN [students |-> s1, exc |-> "exit: ValueError"]
        ELSE IF ~MarksOk(field("English")) THEN [students |-> s2, exc |-> "exit: ValueError"]
        ELSE [students |-> s3, exc |-> NoExc]

RECURSIVE MarksRows(_, _, _)
MarksRows(st, names, rows) ==
    IF rows = <<>> THEN [students |-> st, exc |-> NoExc]
    ELSE LET r == MarksRow(st, names, rows[1])
         IN  IF r.exc # NoExc THEN r ELSE MarksRows(r.students, names, Tail(rows))

load_marks_data(st, fsys, filename) ==
    IF filename \notin DOMAIN fsys THEN [students |-> st, exc |-> "FileNotFoundError"]
    ELSE LET rows == reader(fsys[filename])
         IN  IF rows = <<>> THEN [students |-> st, exc |-> "TypeError"]
             ELSE IF FirstMissing(fieldnames(rows), <<"StudentID", "Math", "Science", "English">>) # 0
             THEN [students |-> st, exc |-> "exit: column is missing"]
             ELSE MarksRows(st, fieldnames(rows), DataRows(rows))

RECURSIVE WeightRows(_, _, _)
WeightRows(weights, names, rows) ==
    IF rows = <<>> THEN [weights |-> weights, exc |-> NoExc]
    ELSE IF ~HasColumn(names, "Subject") \/ ~HasColumn(names, "Weight")
         THEN [weights |-> weights, exc |-> "KeyError"]
    ELSE IF ~FloatOk(RowGet(names, rows[1], "Weight"))
         THEN [weights |-> weights, exc |-> "ValueError"]
    ELSE IF weights = Undefined
         THEN [weights |-> weights, exc |-> "AttributeError"]
    ELSE LET subject == RowGet(names, rows[1], "Subject")
             weight == float(RowGet(names, rows[1], "Weight"))
         IN  WeightRows([x \in DOMAIN weights \cup {subject} |->
                            IF x = subject THEN weight ELSE weights[x]],
                        names, Tail(rows))

\* a missing file is caught inside (the warning), anything else propagates
load_subject_weights(weights, fsys, filename) ==
    IF filename \notin DOMAIN fsys THEN [weights |-> weights, exc |-> NoExc]
    ELSE LET rows == reader(fsys[filename])
         IN  IF rows = <<>> THEN [weights |-> weights, exc |-> NoExc]
             ELSE WeightRows(weights, fieldnames(rows), DataRows(rows))

\* load_data: the three loads in order, the first exception ends it
load_data_result(st, weights, fsys) ==
    LET r1 == load_student_data(st, fsys, "students.csv")
        r2 == load_marks_data(r1.students, fsys, "marks.csv")
        r3 == load_subject_weights(weights, fsys, "weights.csv")
    IN  IF r1.exc # NoExc THEN [students |-> r1.students, weights |-> weights, exc |-> r1.exc]
        ELSE IF r2.exc # NoExc THEN [students |-> r2.students, weights |-> weights, exc |-> r2.exc]
        ELSE [students |-> r2.students, weights |-> r3.weights, exc |-> r3.exc]

\* exit() and the FileNotFoundError handler end the process with a diagnostic;
\* any other exception is not caught anywhere
Exits(exc) == exc \in {"FileNotFoundError", "exit: column is missing", "exit: ValueError"}

(***************************************************************************)
(* The operations behind the menu.  Each yields what it printed (out) and  *)
(* the exception that ended it (exc, NoExc when it returned).  A loop over *)
(* the students stops at the first student whose block raises.             *)
(***************************************************************************)
FirstRaise(blocks) ==
    IF \E i \in 1..Len(blocks) : blocks[i].exc # NoExc
    THEN CHOOSE i \in 1..Len(blocks) :
             blocks[i].exc # NoExc /\ \A j \in 1..(i - 1) : blocks[j].exc = NoExc
    ELSE 0

Printed(blocks) ==
    LET k == FirstRaise(blocks)
    IN  [out |-> [i \in 1..(IF k = 0 THEN Len(blocks) ELSE k - 1) |-> blocks[i].line],
         exc |-> IF k = 0 THEN NoExc ELSE blocks[k].exc]

\* the ints among the elements of all values of one student's dict
IntElements(data) ==
    LET elems == Concat([i \in 1..Len(Keys(data)) |-> Iter(data[Keys(data)[i]])])
        ints == SelectSeq(elems, LAMBDA e : isinstance(e, "int"))
    IN  [i \in 1..Len(ints) |-> ints[i].v]

\* an average that divides by the number of values of the dict
calculate_average_per_value(st, student_id) ==
    IF Has(st, student_id)
    THEN LET marks == IntElements(Get(st, student_id))
         IN  IF marks # <<>> THEN Float(SumSeq(marks), Cardinality(DOMAIN Get(st, student_id))) ELSE None
    ELSE None

calculate_average(st, student_id) ==
    IF Has(st, student_id)
    THEN LET marks == IntElements(Get(st, student_id))
         IN  IF marks # <<>> THEN Float(SumSeq(marks), Len(marks)) ELSE None
    ELSE None

SubjectKeys(data) == SelectSeq(Keys(data), LAMBDA k : k \notin {"Name", "Class"})

generate_report(st) ==
    Printed([i \in 1..Len(st) |->
        LET data == st[i].data
            average == calculate_average(st, st[i].id)
        IN  IF average # None
            THEN IF "Name" \notin DOMAIN data \/ "Class" \notin DOMAIN data
                 THEN [exc |-> "KeyError", line |-> <<>>]
                 ELSE [exc |-> NoExc,
                       line |-> [id |-> st[i].id, Name |-> data["Name"].v, Class |-> data["Class"].v,
                                 subjects |-> [k \in Range(SubjectKeys(data)) |-> data[k].v],
                                 average |-> average]]
            ELSE [exc |-> NoExc, line |-> [id |-> st[i].id, average |-> None]]])

display_all_students(st) ==
    Printed([i \in 1..Len(st) |->
        LET data == st[i].data
        IN  IF "Name" \notin DOMAIN data \/ "Class" \notin DOMAIN data
            THEN [exc |-> "KeyError", line |-> <<>>]
            ELSE [exc |-> NoExc,
                  line |-> [id |-> st[i].id, Name |-> data["Name"].v, Class |-> data["Class"].v]]])

ExportHeader == <<<<"StudentID">>, <<"Name">>, <<"Class">>, <<"Math">>, <<"Science">>, <<"English">>>>

MarksField(marks) == join(",", [i \in 1..Len(marks) |-> str(marks[i])])

\* the file is opened for writing first, so it holds the header and the rows
\* written before the exception
export_students_to_csv(st) ==
    LET written == Printed([i \in 1..Len(st) |->
            LET data == st[i].data
            IN  IF \E k \in Range(KeyOrder) : k \notin DOMAIN data
                THEN [exc |-> "KeyError", line |-> <<>>]
                ELSE [exc |-> NoExc,
                      line |-> writerow(<<st[i].id, data["Name"].v, data["Class"].v,
                                          MarksField(data["Math"].v),
                                          MarksField(data["Science"].v),
                                          MarksField(data["English"].v)>>)]])
    IN  [text |-> writerow(ExportHeader) \o Concat(written.out), exc |-> written.exc]

\* the lines printed for one subject: assignment number, mark, progress
AssignmentLines(marks) ==
    [n \in 1..Len(marks) |->
        [assignment |-> n, mark |-> marks[n],
         progress |-> IF n = 1 THEN None
                      ELSE Float((marks[n] - marks[n - 1]) * 100, marks[n - 1])]]

\* the division raises when an assignment follows a mark of 0
DividesByZero(marks) == \E n \in 2..Len(marks) : marks[n - 1] = 0

total_marks(data) ==
    LET lists == SelectSeq(Keys(data), LAMBDA k : isinstance(data[k], "list"))
    IN  SumSeq([i \in 1..Len(lists) |-> SumSeq(data[lists[i]].v)])

progress_percentage(data) == Float(total_marks(data) * 100, 100 * Cardinality(DOMAIN data))

track_progress_over_time(st) ==
    Printed([i \in 1..Len(st) |->
        LET data == st[i].data
        IN  IF total_marks(data) > 0
            THEN IF "Name" \notin DOMAIN data
                 THEN [exc |-> "KeyError", line |-> <<>>]
                 ELSE IF \E k \in Range(SubjectKeys(data)) : DividesByZero(data[k].v)
                 THEN [exc |-> "ZeroDivisionError", line |-> <<>>]
                 ELSE [exc |-> NoExc,
                       line |-> [id |-> st[i].id, valid |-> TRUE, Name |-> data["Name"].v,
                                 total |-> total_marks(data),
                                 progress |-> progress_percentage(data),
                                 subjects |-> [k \in Range(SubjectKeys(data)) |->
                                                  AssignmentLines(data[k].v)]]]
            ELSE [exc |-> NoExc, line |-> [id |-> st[i].id, valid |-> FALSE]]])

(***************************************************************************)
(* The files the program may find when it starts                           *)
(***************************************************************************)
Absent == <<"<absent>">>

Text(lines) == Concat([i \in 1..Len(lines) |-> lines[i] \o <<LF>>])

TextCRLF(lines) == Concat([i \in 1..Len(lines) |-> lines[i] \o <<CR, LF>>])

IdentityHeader == <<"StudentID", ";", "Name", ";", "Class">>

MarksHeader == <<"StudentID", ";", "Math", ";", "Science", ";", "English">>

IdentityFiles ==
    { Absent,
      <<>>,
      Text(<<IdentityHeader>>),
      Text(<<<<"StudentID", ";", "Name">>, <<"S1", ";", "Al">>>>),
      TextCRLF(<<IdentityHeader, <<"S1", ";", "Al", ";", "X">>>>),
      Text(<<IdentityHeader, <<"S1", ";", "Al", ";", "X">>, <<"S2", ";", "Bo", ";", "Y">>>>),
      Text(<<IdentityHeader,
             <<"S2", ";", "\"", "B", ";", "o", "\"", ";", "Y">>,
             <<"S1", ";", "\"", "A", "\"", "\"", "l", "\"", ";", "\"", "X", LF, "1", "\"">>>>) }

MarksFiles ==
    { Absent,
      Text(<<<<"StudentID", ";", "Math", ";", "Science">>, <<"S1", ";", "7", ";", "8">>>>),
      Text(<<MarksHeader, <<"S1", ";", "5", "0", ",", "1", "0", "0", ",", "5", "0", ";", "7", "0", ";", "8", "0">>,
             <<"S2", ";", "1", "0", "0", ";", "1", "0", "0", ";", "1", "0", "0">>>>),
      Text(<<MarksHeader, <<"S2", ";", "9", "0", ";", "9", "0", ";", "9", "0">>,
             <<"S1", ";", "1", "0", ";", "2", "0", ";", "3", "0">>>>),
      Text(<<MarksHeader, <<"S1", ";", "0", ",", "1", "0", ";", "5", ";", "5">>>>),
      Text(<<MarksHeader, <<"S1", ";", "0", ";", "0", ";", "0">>>>),
      Text(<<MarksHeader, <<"S1", ";", "-", "5", ",", "1", "5", ";", "+", "7", ";", "0", "8">>>>),
      Text(<<MarksHeader, <<"S1", ";", "7", ";", "x", ";", "9">>>>),
      Text(<<MarksHeader, <<"S1", ";", "7", ";", "8", ";", "9">>, <<"S2", ";", "6", ";", "5", ";">>>>),
      TextCRLF(<<MarksHeader, <<"S1", ";", "7", ";", "8", ";", "9">>, <<"S3", ";", "1", ";", "2", ";", "3">>>>) }

WeightsFiles ==
    { Absent,
      Text(<<<<"Subject", ";", "Weight">>>>),
      Text(<<<<"Subject", ";", "Weight">>, <<"Math", ";", "1", ".", "5">>>>),
      Text(<<<<"Subject", ";", "Weight">>, <<"Math", ";", "h", "i", "g", "h">>>>) }

FileSystem(i, m, w) ==
    LET present == (IF i = Absent THEN {} ELSE {"students.csv"})
                   \cup (IF m = Absent THEN {} ELSE {"marks.csv"})
                   \cup (IF w = Absent THEN {} ELSE {"weights.csv"})
    IN  [n \in present |-> IF n = "students.csv" THEN i ELSE IF n = "marks.csv" THEN m ELSE w]

FileSystems == {FileSystem(i, m, w) : i \in IdentityFiles, m \in MarksFiles, w \in WeightsFiles}

(***************************************************************************)
(* A family of well-formed files: student S1 with any name of at most      *)
(* MaxNameLen symbols and any Math list of at most MaxMarks marks, alone   *)
(* or with a second student who is complete (S2), has no marks row (S2),   *)
(* or has a marks row only (S3).  Every name is written quoted.            *)
(***************************************************************************)
MaxNameLen == 1

MaxMarks == 2

NameAlphabet == {"a", ";", "\"", LF}

MarkTokens == {<<"0">>, <<"7">>, <<"1", "0", "0">>, <<"-", "1", "2">>}

Strings(alphabet, n) == UNION {[1..k -> alphabet] : k \in 0..n}

Quoted(f) ==
    <<quotechar>>
    \o Concat([i \in 1..Len(f) |-> IF f[i] = quotechar THEN <<quotechar, quotechar>> ELSE <<f[i]>>])
    \o <<quotechar>>

MarkFields ==
    {Concat([i \in 1..Len(toks) |-> IF i = 1 THEN toks[i] ELSE <<",">> \o toks[i]]) :
        toks \in UNION {[1..k -> MarkTokens] : k \in 1..MaxMarks}}

SecondStudents == {"none", "complete", "no marks", "marks only"}

GeneratedIdentity(name, second) ==
    Text(<<IdentityHeader, <<"S1", ";">> \o Quoted(name) \o <<";", "X">>>>
         \o (IF second \in {"complete", "no marks"} THEN <<<<"S2", ";", "Bo", ";", "Y">>>> ELSE <<>>))

GeneratedMarks(math, second) ==
    Text(<<MarksHeader, <<"S1", ";">> \o math \o <<";", "+", "7", ";", "0", "8", ",", "0">>>>
         \o (IF second = "complete" THEN <<<<"S2", ";", "9", "0", ";", "9", "0", ";", "9", "0">>>>
             ELSE IF second = "marks only" THEN <<<<"S3", ";", "1", ";", "2", ";", "3">>>>
             ELSE <<>>))

GeneratedFileSystems ==
    {FileSystem(GeneratedIdentity(name, second), GeneratedMarks(math, second), Absent) :
        name \in Strings(NameAlphabet, MaxNameLen), math \in MarkFields, second \in SecondStudents}

(***************************************************************************)
(* The program: construction (which loads), then the menu loop             *)
(***************************************************************************)
Init ==
    /\ pc = "start"
    /\ err = NoExc
    /\ students = <<>>
    /\ subject_weights = Undefined
    /\ fs \in FileSystems
    /\ choice = ""
    /\ stdout = <<>>

\* StudentMarksSystem(): __init__ runs load_data
load_data ==
    /\ pc = "start"
    /\ LET r == load_data_result(students, subject_weights, fs)
       IN  /\ students' = r.students
           /\ subject_weights' = r.weights
           /\ err' = r.exc
           /\ pc' = IF r.exc = NoExc THEN "menu" ELSE IF Exits(r.exc) THEN "exited" ELSE "crashed"
    /\ UNCHANGED <<fs, choice, stdout>>

\* the menu loop has no exception handler: an exception ends the process
After(exc) == IF exc = NoExc THEN "menu" ELSE "crashed"

MenuGenerateReport ==
    /\ pc = "menu"
    /\ choice' = "1"
    /\ LET r == generate_report(students)
       IN  stdout' = r.out /\ err' = r.exc /\ pc' = After(r.exc)
    /\ UNCHANGED <<students, subject_weights, fs>>

MenuDisplayAllStudents ==
    /\ pc = "menu"
    /\ choice' = "2"
    /\ LET r == display_all_students(students)
       IN  stdout' = r.out /\ err' = r.exc /\ pc' = After(r.exc)
    /\ UNCHANGED <<students, subject_weights, fs>>

\* an export that first gives every student an empty list for a missing subject
WithDefaults(st) ==
    [i \in 1..Len(st) |->
        [st[i] EXCEPT !.data = [k \in DOMAIN st[i].data \cup {"Math", "Science", "English"} |->
                                   IF k \in DOMAIN st[i].data THEN st[i].data[k] ELSE PyList(<<>>)]]]

MenuExport_setdefault ==
    /\ pc = "menu"
    /\ choice' = "3"
    /\ students' = WithDefaults(students)
    /\ LET r == export_students_to_csv(students')
       IN  /\ fs' = [n \in DOMAIN fs \cup {"all_students.csv"} |->
                        IF n = "all_students.csv" THEN r.text ELSE fs[n]]
           /\ stdout' = IF r.exc = NoExc THEN <<"All students' data exported">> ELSE <<>>
           /\ err' = r.exc
           /\ pc' = After(r.exc)
    /\ UNCHANGED subject_weights

MenuExport ==
    /\ pc = "menu"
    /\ choice' = "3"
    /\ LET r == export_students_to_csv(students)
       IN  /\ fs' = [n \in DOMAIN fs \cup {"all_students.csv"} |->
                        IF n = "all_students.csv" THEN r.text ELSE fs[n]]
           /\ stdout' = IF r.exc = NoExc THEN <<"All students' data exported">> ELSE <<>>
           /\ err' = r.exc
           /\ pc' = After(r.exc)
    /\ UNCHANGED <<students, subject_weights>>

MenuTrackProgress ==
    /\ pc = "menu"
    /\ choice' = "4"
    /\ LET r == track_progress_over_time(students)
       IN  stdout' = r.out /\ err' = r.exc /\ pc' = After(r.exc)
    /\ UNCHANGED <<students, subject_weights, fs>>

\* choice 5: save_data does nothing, the loop ends
MenuExit ==
    /\ pc = "menu"
    /\ choice' = "5"
    /\ stdout' = <<"Exiting the program. Goodbye!">>
    /\ pc' = "done"
    /\ UNCHANGED <<err, students, subject_weights, fs>>

MenuInvalid ==
    /\ pc = "menu"
    /\ choice' \in {"", "6"}
    /\ stdout' = <<"Invalid choice.">>
    /\ UNCHANGED <<pc, err, students, subject_weights, fs>>

Next ==
    \/ load_data
    \/ MenuGenerateReport
    \/ MenuDisplayAllStudents
    \/ MenuExport
    \/ MenuTrackProgress
    \/ MenuExit
    \/ MenuInvalid

Spec == Init /\ [][Next]_vars

\* the program started on the generated files
GeneratedInit ==
    /\ pc = "start"
    /\ err = NoExc
    /\ students = <<>>
    /\ subject_weights = Undefined
    /\ fs \in GeneratedFileSystems
    /\ choice = ""
    /\ stdout = <<>>

GeneratedSpec == GeneratedInit /\ [][Next]_vars

TypeOK ==
    /\ pc \in {"start", "menu", "exited", "crashed", "done"}
    /\ choice \in {"", "1", "2", "3", "4", "5", "6"}

(***************************************************************************)
(* Properties                                                              *)
(***************************************************************************)
Subjects == {"Math", "Science", "English"}

\* the ids in the rows of the identity source
IdentityIds ==
    IF "students.csv" \in DOMAIN fs /\ reader(fs["students.csv"]) # <<>>
       /\ HasColumn(fieldnames(reader(fs["students.csv"])), "StudentID")
    THEN LET rows == reader(fs["students.csv"])
         IN  {RowGet(fieldnames(rows), r, "StudentID") : r \in Range(DataRows(rows))}
    ELSE {}

\* the ids in the rows of the marks source
MarksIds ==
    IF "marks.csv" \in DOMAIN fs /\ reader(fs["marks.csv"]) # <<>>
       /\ HasColumn(fieldnames(reader(fs["marks.csv"])), "StudentID")
    THEN LET rows == reader(fs["marks.csv"])
         IN  {RowGet(fieldnames(rows), r, "StudentID") : r \in Range(DataRows(rows))}
    ELSE {}

LoadAborted == pc = "exited" /\ err \in {"exit: column is missing", "exit: ValueError"}

\* C1: whenever load_data aborts with a fatal load error (a required column
\* missing, or a mark that is not an integer), the student store is empty.
C1_LoadIsAllOrNothing == LoadAborted => students = <<>>

\* C2: after the identity and marks loads, the ids of the store are exactly
\* the ids of the identity source, and a marks row for an id that is not in
\* the identity source makes the load fail without adding or extending an entry.
C2_StoreIffIdentity ==
    /\ pc \in {"menu", "done"} => IdSet(students) = IdentityIds
    /\ (pc # "start" /\ load_student_data(<<>>, fs, "students.csv").exc = NoExc
            /\ MarksIds \ IdentityIds # {}) =>
           (pc = "exited" /\ IdSet(students) \subseteq IdentityIds)

LacksSubject(st) == \E i \in 1..Len(st) : \E k \in Subjects : k \notin DOMAIN st[i].data

HasEmptyField(text) ==
    \E r \in Range(DataRows(reader(text))) : \E i \in 1..Len(r) : r[i] = <<>>

\* C3: an export of a store in which a student lacks one of Math, Science,
\* English fails for that call only: no row with an empty field is written
\* and control is back in the menu loop, the process is not ended.
C3_ExportFailureIsLocal ==
    (choice = "3" /\ LacksSubject(students)) =>
        (pc = "menu" /\ ~HasEmptyField(fs["all_students.csv"]))

ClaimedDelta(marks, n) ==
    IF n = 1 \/ marks[n - 1] = 0 THEN None
    ELSE Float((marks[n] - marks[n - 1]) * 100, marks[n - 1])

ZeroBeforeNext(st) ==
    \E i \in 1..Len(st) : \E k \in Subjects \cap DOMAIN st[i].data : DividesByZero(st[i].data[k].v)

\* C4: track_progress_over_time never raises on a previous mark of 0: the
\* report has a block for every student, and in it assignment 1 has no delta,
\* assignment n > 1 has (marks[n] - marks[n-1]) / marks[n-1] * 100, or no
\* delta when marks[n-1] is 0.
C4_ZeroPreviousMarkDoesNotRaise ==
    (choice = "4" /\ ZeroBeforeNext(students) /\ \A i \in 1..Len(students) : "Name" \in DOMAIN students[i].data) =>
        /\ err # "ZeroDivisionError"
        /\ Len(stdout) = Len(students)
        /\ \A i \in 1..Len(stdout) : stdout[i].valid =>
               \A k \in DOMAIN stdout[i].subjects : \A n \in 1..Len(stdout[i].subjects[k]) :
                   stdout[i].subjects[k][n].progress = ClaimedDelta(Get(students, stdout[i].id)[k].v, n)

StudentsAndMarksLoad ==
    load_marks_data(load_student_data(<<>>, fs, "students.csv").students, fs, "marks.csv").exc = NoExc
    /\ load_student_data(<<>>, fs, "students.csv").exc = NoExc

WeightRowsOf(fsys) ==
    IF "weights.csv" \in DOMAIN fsys /\ reader(fsys["weights.csv"]) # <<>>
    THEN DataRows(reader(fsys["weights.csv"]))
    ELSE <<>>

WeightsWellFormed(fsys) ==
    "weights.csv" \in DOMAIN fsys =>
        /\ reader(fsys["weights.csv"]) # <<>>
        /\ HasColumn(fieldnames(reader(fsys["weights.csv"])), "Subject")
        /\ HasColumn(fieldnames(reader(fsys["weights.csv"])), "Weight")
        /\ \A r \in Range(WeightRowsOf(fsys)) :
               FloatOk(RowGet(fieldnames(reader(fsys["weights.csv"])), r, "Weight"))

\* C5: load_data completes both without a weights source and with a
\* well-formed one, and afterwards every subject that has a row in the
\* weights source has the weight of that row (any other subject has 1.0).
C5_WeightsLoadCompletes ==
    (pc # "start" /\ StudentsAndMarksLoad /\ WeightsWellFormed(fs)) =>
        /\ pc \in {"menu", "done"} \/ choice # ""
        /\ \A r \in Range(WeightRowsOf(fs)) :
               LET names == fieldnames(reader(fs["weights.csv"]))
               IN  /\ subject_weights # Undefined
                   /\ RowGet(names, r, "Subject") \in DOMAIN subject_weights
                   /\ \E later \in Range(WeightRowsOf(fs)) :
                          /\ RowGet(names, later, "Subject") = RowGet(names, r, "Subject")
                          /\ subject_weights[RowGet(names, r, "Subject")] = float(RowGet(names, later, "Weight"))

\* C6: once the load phase is over, no menu selection changes the student
\* store, also when the selected operation ends in an error.
C6_MenuLeavesStoreUnchanged == [][pc # "start" => students' = students]_vars

C6_Witness ==
    /\ choice \in {"1", "2", "3", "4"}
    /\ pc = "crashed"
    /\ Len(students) >= 2

Complete(st) == \A i \in 1..Len(st) : \A k \in Range(KeyOrder) : k \in DOMAIN st[i].data

ExportedFile == [f \in {"all_students.csv"} |-> fs["all_students.csv"]]

\* the exported file read by load_student_data and load_marks_data into an empty store
Reimported ==
    LET identity == load_student_data(<<>>, ExportedFile, "all_students.csv")
    IN  IF identity.exc # NoExc THEN identity
        ELSE load_marks_data(identity.students, ExportedFile, "all_students.csv")

\* C7: when every student has Name, Class and the three mark lists, the
\* exported file, loaded into an empty store by load_student_data and
\* load_marks_data, gives the same ids with the same Name, Class and mark lists.
C7_ExportImportRoundTrip ==
    ("all_students.csv" \in DOMAIN fs /\ Complete(students)) =>
        /\ Reimported.exc = NoExc
        /\ Reimported.students = students

C7_Witness ==
    /\ "all_students.csv" \in DOMAIN fs
    /\ Complete(students)
    /\ Len(students) >= 2
    /\ \E i \in 1..Len(students) :
           /\ quotechar \in Range(students[i].data["Name"].v)
           /\ Len(students[i].data["Math"].v) >= 2
           /\ \E n \in 1..Len(students[i].data["Math"].v) : students[i].data["Math"].v[n] < 0

MarksOf(data) == Concat([i \in 1..Len(SubjectKeys(data)) |-> data[SubjectKeys(data)[i]].v])

UnknownIds == {<<"S9">>, <<>>}

C9_ProgressUsesSubjectCount ==
    choice = "4" =>
        \A i \in 1..Len(stdout) : stdout[i].valid =>
            LET data == Get(students, stdout[i].id)
            IN  stdout[i].progress = Float(SumSeq(MarksOf(data)) * 100, 100 * Len(SubjectKeys(data)))

IdsAscending == <<<<"S1">>, <<"S2">>, <<"S3">>>>

IdRank(id) == CHOOSE i \in 1..Len(IdsAscending) : IdsAscending[i] = id

FloatGeq(a, b) == a.num * b.den >= b.num * a.den

\* C10: generate_report lists the students in non-increasing order of their
\* average, the students without data last, in ascending id order.
C10_ReportIsRanked ==
    (choice = "1" /\ pc = "menu") =>
        \A i, j \in 1..Len(stdout) : i < j =>
            /\ stdout[i].average = None =>
                   (stdout[j].average = None /\ IdRank(stdout[i].id) < IdRank(stdout[j].id))
            /\ (stdout[i].average # None /\ stdout[j].average # None) =>
                   FloatGeq(stdout[i].average, stdout[j].average)

====
